---- MODULE Spec2Model ----
(***************************************************************************)
(* Model of the resume regeneration pipeline of src/main.py:               *)
(* convert_markdown_to_latex, prompt_model and main.                       *)
(*                                                                         *)
(* Text is a sequence of characters, each character a one-character        *)
(* string.  The backtick is written BT; its string carries a closing       *)
(* quote mark only because the lexer pairs a backtick with one.            *)
(***************************************************************************)
EXTENDS Integers, Sequences, FiniteSets, TLC

BT == "`'"
NL == "\n"
BSL == "\\"
STAR == "*"
HASH == "#"

Min(S) == CHOOSE m \in S : \A n \in S : m <= n

NoNewline(t, a, b) == \A k \in a..b : t[k] # NL

(***************************************************************************)
(* The replacement templates of the four re.sub calls.                     *)
(***************************************************************************)
texttt(g) == <<BSL, "t", "e", "x", "t", "t", "t", "{">> \o g \o <<"}">>
textbf(g) == <<BSL, "t", "e", "x", "t", "b", "f", "{">> \o g \o <<"}">>
textit(g) == <<BSL, "t", "e", "x", "t", "i", "t", "{">> \o g \o <<"}">>

(***************************************************************************)
(* The inline-code substitution (first re.sub), scanning from position p.  *)
(* A match starts at a backtick followed by a non-backtick and ends at the *)
(* next backtick; the negated class also matches a newline.                *)
(***************************************************************************)
CodeEnds_or_end(t, p) == {q \in (p + 2)..Len(t) : t[q] = BT \/ q = Len(t)}

CodeEnds(t, p) == {q \in (p + 2)..Len(t) : t[q] = BT}
CodeMatch(t, p) == t[p] = BT /\ p + 1 <= Len(t) /\ t[p + 1] # BT /\ CodeEnds(t, p) # {}

RECURSIVE SubCode(_, _)
SubCode(t, p) ==
    IF p > Len(t) THEN <<>>
    ELSE IF CodeMatch(t, p)
         THEN LET q == Min(CodeEnds(t, p))
              IN  texttt(SubSeq(t, p + 1, q - 1)) \o SubCode(t, q + 1)
         ELSE <<t[p]>> \o SubCode(t, p + 1)

(***************************************************************************)
(* The bold substitution (second re.sub).  The group is the shortest       *)
(* non-empty run without a newline that is followed by two stars.          *)
(***************************************************************************)
BoldEnds(t, p) ==
    {q \in (p + 3)..(Len(t) - 1) :
        t[q] = STAR /\ t[q + 1] = STAR /\ NoNewline(t, p + 2, q - 1)}
BoldMatch(t, p) ==
    p + 1 <= Len(t) /\ t[p] = STAR /\ t[p + 1] = STAR /\ BoldEnds(t, p) # {}

RECURSIVE SubBold(_, _)
SubBold(t, p) ==
    IF p > Len(t) THEN <<>>
    ELSE IF BoldMatch(t, p)
         THEN LET q == Min(BoldEnds(t, p))
              IN  textbf(SubSeq(t, p + 2, q - 1)) \o SubBold(t, q + 2)
         ELSE <<t[p]>> \o SubBold(t, p + 1)

(***************************************************************************)
(* The italic substitution (third re.sub).  LoneStar is a star with no     *)
(* star on either side (the negative lookbehind and lookahead); the group  *)
(* is the shortest non-empty run without a newline up to a LoneStar.       *)
(***************************************************************************)
LoneStar(t, q) ==
    /\ t[q] = STAR
    /\ (q > 1 => t[q - 1] # STAR)
    /\ (q < Len(t) => t[q + 1] # STAR)
ItalicEnds(t, p) ==
    {q \in (p + 2)..Len(t) : LoneStar(t, q) /\ NoNewline(t, p + 1, q - 1)}
ItalicMatch(t, p) == LoneStar(t, p) /\ ItalicEnds(t, p) # {}

RECURSIVE SubItalic(_, _)
SubItalic(t, p) ==
    IF p > Len(t) THEN <<>>
    ELSE IF ItalicMatch(t, p)
         THEN LET q == Min(ItalicEnds(t, p))
              IN  textit(SubSeq(t, p + 1, q - 1)) \o SubItalic(t, q + 1)
         ELSE <<t[p]>> \o SubItalic(t, p + 1)

(***************************************************************************)
(* The comment substitution (fourth re.sub).  A hash not preceded by a     *)
(* backslash becomes a percent sign; the greedy group takes the rest of    *)
(* the line, so the scan resumes at the next newline.                      *)
(***************************************************************************)
LineEnd(t, p) ==
    LET S == {q \in p..Len(t) : t[q] = NL}
    IN  IF S = {} THEN Len(t) + 1 ELSE Min(S)
HashMatch_line_leading(t, p) == t[p] = HASH /\ (p > 1 => t[p - 1] = NL)

HashMatch(t, p) == t[p] = HASH /\ (p > 1 => t[p - 1] # BSL)

RECURSIVE SubHash(_, _)
SubHash(t, p) ==
    IF p > Len(t) THEN <<>>
    ELSE IF HashMatch(t, p)
         THEN LET e == LineEnd(t, p)
              IN  <<"%">> \o SubSeq(t, p + 1, e - 1) \o SubHash(t, e)
         ELSE <<t[p]>> \o SubHash(t, p + 1)

convert_markdown_to_latex(text) ==
    SubHash(SubItalic(SubBold(SubCode(text, 1), 1), 1), 1)

(***************************************************************************)
(* str.splitlines() for text whose only line break is the newline, and    *)
(* the join of all but the first and last line that main writes.           *)
(***************************************************************************)
RECURSIVE splitlines(_)
splitlines(t) ==
    IF t = <<>> THEN <<>>
    ELSE LET e == LineEnd(t, 1)
         IN  <<SubSeq(t, 1, e - 1)>> \o splitlines(SubSeq(t, e + 1, Len(t)))

RECURSIVE join(_, _)
join(sep, parts) ==
    IF parts = <<>> THEN <<>>
    ELSE IF Len(parts) = 1 THEN parts[1]
    ELSE parts[1] \o sep \o join(sep, Tail(parts))

stripped_text(output) ==
    LET lines == splitlines(output)
    IN  join(<<NL>>, SubSeq(lines, 2, Len(lines) - 1))

(***************************************************************************)
(* Bounds of the model.  main configures six sections; the model runs the  *)
(* first NumSections of them.                                              *)
(***************************************************************************)
NumSections == 3

Sections == 1..NumSections
CoverStep == NumSections + 1

Descriptions ==
    <<"experience", "projects", "publications", "skills", "education", "summary">>
Digits == <<"1", "2", "3", "4", "5", "6">>

(***************************************************************************)
(* Files.  A file either does not exist or holds a text.                   *)
(***************************************************************************)
NoFile == [exists |-> FALSE, data |-> <<>>]
File(t) == [exists |-> TRUE, data |-> t]

Baseline(i) == <<"s", Digits[i]>>

(***************************************************************************)
(* What the environment can supply: the texts the generation service can   *)
(* return (fenced blocks, one with a bold span, one with an inline-code    *)
(* span) and the text a fetch of the job listing yields, which holds one   *)
(* non-ASCII character.                                                    *)
(***************************************************************************)
NONASCII == "\\u00e9"
Fence == <<BT, BT, BT>>
RespBold == Fence \o <<"l", "a", "t", "e", "x", NL, STAR, STAR, "b", STAR, STAR, NL>> \o Fence
RespCode == Fence \o <<NL, "a", " ", BT, "c", BT, NL>> \o Fence
Responses == {RespBold, RespCode}
FetchedText == <<"j", NONASCII, "o", "b">>

Outcomes ==
    [kind : {"text"}, text : Responses] \cup
    {[kind |-> "empty", text |-> <<>>], [kind |-> "raise", text |-> <<>>]}

(***************************************************************************)
(* The command lines: no argument, a URL, a word that starts with "http"   *)
(* without being a URL, and a file path.  A fetch of a URL may succeed or  *)
(* raise; a fetch of anything else raises.                                 *)
(***************************************************************************)
NoArg == <<>>
UrlArg == <<"h", "t", "t", "p", ":", "/", "/", "u">>
HttpWordArg == <<"h", "t", "t", "p", "d">>
PathArg == <<"f", ".", "t", "x", "t">>
Args == {NoArg, UrlArg, HttpWordArg, PathArg}

startswith_http(a) == Len(a) >= 4 /\ SubSeq(a, 1, 4) = <<"h", "t", "t", "p">>

(***************************************************************************)
(* prompt_model: the retry loop's constants and tests.                     *)
(***************************************************************************)
max_tries == 5

None == [none |-> TRUE, text |-> <<>>]
Response(t) == [none |-> FALSE, text |-> t]

sleep_time_one_ahead(i) == 2 * (i + 1)

sleep_time(i) == 2 * i

truthy(t) == t # <<>>

no_response_only_none(r) == r.none

no_response(r) == r.none \/ ~truthy(r.text)

(***************************************************************************)
(* main: the text read from the listing file, restricted to ASCII.         *)
(***************************************************************************)
ascii_only(t) == SelectSeq(t, LAMBDA c : c # NONASCII)

(***************************************************************************)
(* main: the other-sections block of a section's prompt and the resume     *)
(* block of the cover-letter prompt.                                       *)
(***************************************************************************)
RECURSIVE contents_of_all(_, _, _)
contents_of_all(content, i, k) ==
    IF k > NumSections THEN <<>>
    ELSE <<content[k]>> \o contents_of_all(content, i, k + 1)

RECURSIVE contents_except(_, _, _)
contents_except(content, i, k) ==
    IF k > NumSections THEN <<>>
    ELSE (IF k # i THEN <<content[k]>> ELSE <<>>) \o contents_except(content, i, k + 1)

other_sections_of_baselines(content, i) ==
    join(<<NL, NL>>, contents_except([k \in Sections |-> Baseline(k)], i, 1))

other_sections(content, i) == join(<<NL, NL>>, contents_except(content, i, 1))

resume_text(content) == join(<<>>, contents_except(content, 0, 1))

NoPrompt ==
    [kind |-> "none", description |-> "", listing |-> <<>>, edit |-> <<>>, others |-> <<>>]
section_query(content, i, job) ==
    [kind |-> "section", description |-> Descriptions[i], listing |-> job,
     edit |-> content[i], others |-> other_sections(content, i)]
cover_query(content, job) ==
    [kind |-> "cover", description |-> "", listing |-> job,
     edit |-> <<>>, others |-> resume_text(content)]

VARIABLES
    listing_file,   \* the job-listing cache file
    bak,            \* bak[i]: the baseline file of section i
    out,            \* out[i]: the output file of section i
    cover,          \* the cover-letter file
    pc,             \* where the process is
    error,          \* the exception that ended the run, "" if none
    listing,        \* main's listing
    latex_content,  \* latex_content[i] of sections[i]
    sec,            \* the section of the for loop; CoverStep after the loop
    prompt,         \* the prompt of the prompt_model call in progress
    tries,          \* attempts made by the prompt_model call in progress
    response,       \* prompt_model's response
    output,         \* main's output
    waits,          \* the sleeps of the prompt_model call in progress
    allBad,         \* every attempt of that call returned empty text or raised
    allEmpty,       \* every attempt of that call returned empty text
    calls,          \* the steps that called prompt_model in this run, in order
    returned,       \* the steps whose prompt_model call returned, in order
    mutations,      \* mutations[i]: assignments to latex_content[i] in this run
    touched,        \* the steps whose file this run opened for writing
    regen,          \* regen[i]: the response returned for section i in this run
    outAtStart,     \* the output files as the run found them
    texts,          \* the non-empty texts the attempts of that call returned
    argv,           \* the argument the process was started with
    tex_path,       \* compile_latex: its argument
    exit_status,    \* compile_latex: what os.system returns
    compiled        \* compile_latex: whether it was called, and its result

files == <<listing_file, bak, out, cover>>
process == <<pc, error, listing, latex_content, sec, prompt, tries, response, output>>
history ==
    <<waits, allBad, allEmpty, calls, returned, mutations, touched, regen, outAtStart, texts>>
compile_vars == <<tex_path, exit_status, compiled>>
vars == <<files, process, history, argv, compile_vars>>

Running ==
    {"Idle", "OpenListing", "Fetch", "Load", "PerSection", "Generate", "Request",
     "Normalize",
     "OpenOut", "WriteOut",
     "CoverLetter", "OpenCover", "WriteCover"}
Stopped == {"Done", "Failed", "Crashed"}

FreshProcess ==
    /\ pc = "Idle"
    /\ error = ""
    /\ listing = <<>>
    /\ latex_content = [i \in Sections |-> <<>>]
    /\ sec = 0
    /\ prompt = NoPrompt
    /\ tries = 0
    /\ response = None
    /\ output = <<>>
    /\ waits = <<>>
    /\ allBad = TRUE
    /\ allEmpty = TRUE
    /\ calls = <<>>
    /\ returned = <<>>
    /\ mutations = [i \in Sections |-> 0]
    /\ touched = {}
    /\ regen = [i \in Sections |-> None]
    /\ outAtStart = out
    /\ texts = <<>>

NotCalled == [called |-> FALSE, none |-> TRUE, path |-> <<>>, error |-> ""]

Init ==
    /\ listing_file \in {NoFile, File(FetchedText)}
    /\ bak \in [Sections -> {NoFile}] \cup {[i \in Sections |-> File(Baseline(i))]}
                \cup {[i \in Sections |-> IF i = NumSections THEN NoFile ELSE File(Baseline(i))]}
    /\ out = [i \in Sections |-> NoFile]
    /\ cover = NoFile
    /\ FreshProcess
    /\ argv \in Args
    /\ tex_path = <<>>
    /\ exit_status = 0
    /\ compiled = NotCalled

(***************************************************************************)
(* main, up to the for loop.  With an argument that starts with http the   *)
(* listing file is refreshed in three steps, and the process can be killed *)
(* between any two of them: the old file is removed; the file is opened    *)
(* for writing, which creates it empty; get_listing_text waits for the     *)
(* network and its text is written.  A fetch that raises leaves the empty  *)
(* file.  Then the listing file is read and the sections are constructed,  *)
(* each reading its baseline.                                              *)
(***************************************************************************)
Fail(e) == pc' = "Failed" /\ error' = e

ListingStep == 0

missing_first_baseline == ~bak[1].exists

missing_baseline == \E i \in Sections : ~bak[i].exists

read_output_or_baseline(i) == IF out[i].exists THEN out[i].data ELSE bak[i].data

read_baseline(i) == bak[i].data

main_idle ==
    /\ pc = "Idle"
    /\ IF argv = NoArg
       THEN /\ pc' = "Load"
            /\ UNCHANGED <<error, listing_file, touched>>
       ELSE IF ~startswith_http(argv)
       THEN /\ Fail("ValueError")
            /\ UNCHANGED <<listing_file, touched>>
       ELSE /\ listing_file' = NoFile
            /\ touched' = IF listing_file.exists THEN touched \cup {ListingStep} ELSE touched
            /\ pc' = "OpenListing"
            /\ UNCHANGED error
    /\ UNCHANGED <<argv, compile_vars, bak, out, cover, listing, latex_content, sec, prompt,
                   tries, response, output, waits, allBad, allEmpty, texts, calls, returned,
                   mutations, regen, outAtStart>>

main_open_listing ==
    /\ pc = "OpenListing"
    /\ listing_file' = File(<<>>)
    /\ touched' = touched \cup {ListingStep}
    /\ pc' = "Fetch"
    /\ UNCHANGED <<argv, compile_vars, bak, out, cover, error, listing, latex_content, sec,
                   prompt, tries, response, output, waits, allBad, allEmpty, texts, calls,
                   returned, mutations, regen, outAtStart>>

main_fetch ==
    /\ pc = "Fetch"
    /\ \E fetch_ok \in BOOLEAN :
        /\ (fetch_ok => argv = UrlArg)
        /\ IF fetch_ok
           THEN /\ listing_file' = File(FetchedText)
                /\ pc' = "Load"
                /\ UNCHANGED error
           ELSE /\ Fail("RequestException")
                /\ UNCHANGED listing_file
    /\ UNCHANGED <<argv, compile_vars, bak, out, cover, listing, latex_content, sec, prompt,
                   tries, response, output, history>>

main_load ==
    /\ pc = "Load"
    /\ IF ~listing_file.exists
       THEN /\ Fail("FileNotFoundError")
            /\ UNCHANGED <<listing, latex_content, sec>>
       ELSE /\ listing' = ascii_only(listing_file.data)
            /\ IF missing_baseline
               THEN /\ Fail("FileNotFoundError")
                    /\ UNCHANGED <<latex_content, sec>>
               ELSE /\ latex_content' = [i \in Sections |-> read_baseline(i)]
                    /\ sec' = 1
                    /\ pc' = "PerSection"
                    /\ error' = ""
    /\ UNCHANGED <<argv, compile_vars, files, prompt, tries, response, output, history>>

(***************************************************************************)
(* main, top of the for loop: build the query of section sec from the      *)
(* current latex_content of the sections and call prompt_model.  The       *)
(* sections differ in their description, so the dataclass comparison       *)
(* leaves out exactly the section itself.                                  *)
(***************************************************************************)
enter_prompt_model(q) ==
    /\ prompt' = q
    /\ tries' = 0
    /\ response' = None
    /\ waits' = <<>>
    /\ allBad' = TRUE
    /\ allEmpty' = TRUE
    /\ texts' = <<>>
    /\ calls' = Append(calls, sec)
    /\ pc' = "Generate"

main_query_opening_output ==
    /\ pc = "PerSection"
    /\ enter_prompt_model(section_query(latex_content, sec, listing))
    /\ out' = [out EXCEPT ![sec] = File(<<>>)]
    /\ touched' = touched \cup {sec}
    /\ UNCHANGED <<argv, compile_vars, listing_file, bak, cover, error, listing, latex_content, sec,
                   output, returned, mutations, regen, outAtStart>>

main_query ==
    /\ pc = "PerSection"
    /\ enter_prompt_model(section_query(latex_content, sec, listing))
    /\ UNCHANGED <<argv, compile_vars, files, error, listing, latex_content, sec, output,
                   returned, mutations, touched, regen, outAtStart>>

(***************************************************************************)
(* prompt_model: an iteration of the loop waits twice, in the sleep and    *)
(* then in the call of the service, and the process can be killed in       *)
(* either; tries counts the attempts that have finished.  An attempt that  *)
(* ends the loop, by break or by exhaustion, goes on to the test after the *)
(* loop, which raises or returns.                                          *)
(***************************************************************************)
after_attempt(r, o) == IF o.kind = "raise" THEN r ELSE Response(o.text)

loop_ends_when_exhausted(r, o, i) == i + 1 = max_tries

loop_ends(r, o, i) == (o.kind # "raise" /\ truthy(r.text)) \/ i + 1 = max_tries

log_no_response == error' = "Exception" /\ pc' = "PerSection"

raise_no_response == Fail("Exception")

after_return == IF sec = CoverStep THEN "OpenCover" ELSE "Normalize"

prompt_model_sleep ==
    /\ pc = "Generate"
    /\ tries < max_tries
    /\ waits' = Append(waits, sleep_time(tries))
    /\ pc' = "Request"
    /\ UNCHANGED <<argv, compile_vars, files, error, listing, latex_content, sec, prompt,
                   tries, response, output, allBad, allEmpty, texts, calls, returned,
                   mutations, touched, regen, outAtStart>>

prompt_model_attempt ==
    /\ pc = "Request"
    /\ \E o \in Outcomes :
        /\ tries' = tries + 1
        /\ response' = after_attempt(response, o)
        /\ allBad' = (allBad /\ o.kind # "text")
        /\ allEmpty' = (allEmpty /\ o.kind = "empty")
        /\ texts' = IF o.kind # "raise" /\ truthy(o.text) THEN Append(texts, o.text) ELSE texts
        /\ IF ~loop_ends(response', o, tries)
           THEN pc' = "Generate" /\ UNCHANGED <<error, returned, regen>>
           ELSE IF no_response(response')
           THEN raise_no_response /\ UNCHANGED <<returned, regen>>
           ELSE /\ pc' = after_return
                /\ error' = ""
                /\ returned' = Append(returned, sec)
                /\ regen' = IF sec = CoverStep THEN regen
                            ELSE [regen EXCEPT ![sec] = response']
    /\ UNCHANGED <<argv, compile_vars, files, listing, latex_content, sec, prompt, output,
                   waits, calls, mutations, touched, outAtStart>>

(***************************************************************************)
(* main, after prompt_model returned: convert the response and assign it   *)
(* to the section.                                                         *)
(***************************************************************************)
main_convert ==
    /\ pc = "Normalize"
    /\ output' = convert_markdown_to_latex(response.text)
    /\ latex_content' = [latex_content EXCEPT ![sec] = output']
    /\ mutations' = [mutations EXCEPT ![sec] = @ + 1]
    /\ pc' = "OpenOut"
    /\ UNCHANGED <<argv, compile_vars, files, error, listing, sec, prompt, tries, response,
                   waits, allBad, allEmpty, texts, calls, returned, touched, regen, outAtStart>>

(***************************************************************************)
(* main: open the section's output file for writing, which empties it.     *)
(***************************************************************************)
main_open ==
    /\ pc = "OpenOut"
    /\ out' = [out EXCEPT ![sec] = File(<<>>)]
    /\ touched' = touched \cup {sec}
    /\ pc' = "WriteOut"
    /\ UNCHANGED <<argv, compile_vars, listing_file, bak, cover, error, listing, latex_content, sec,
                   prompt, tries, response, output,
                   waits, allBad, allEmpty, texts, calls, returned, mutations, regen, outAtStart>>

(***************************************************************************)
(* main: write the output without its first and last line, close the file  *)
(* and go to the next section, or to the cover letter after the last.      *)
(***************************************************************************)
next_section_skipping(i) == IF i + 2 <= CoverStep THEN i + 2 ELSE CoverStep

next_section(i) == i + 1

main_write_unflushed ==
    /\ pc = "WriteOut"
    /\ sec' = next_section(sec)
    /\ pc' = IF sec' > NumSections THEN "CoverLetter" ELSE "PerSection"
    /\ UNCHANGED <<argv, compile_vars, files, error, listing, latex_content,
                   prompt, tries, response, output, history>>

main_write ==
    /\ pc = "WriteOut"
    /\ out' = [out EXCEPT ![sec] = File(stripped_text(output))]
    /\ sec' = next_section(sec)
    /\ pc' = IF sec' > NumSections THEN "CoverLetter" ELSE "PerSection"
    /\ UNCHANGED <<argv, compile_vars, listing_file, bak, cover, error, listing, latex_content,
                   prompt, tries, response, output, history>>

(***************************************************************************)
(* main, after the loop: the cover-letter query, and the write of the      *)
(* returned text to the cover-letter file.                                 *)
(***************************************************************************)
main_cover_query ==
    /\ pc = "CoverLetter"
    /\ enter_prompt_model(cover_query(latex_content, listing))
    /\ UNCHANGED <<argv, compile_vars, files, error, listing, latex_content, sec, output,
                   returned, mutations, touched, regen, outAtStart>>

main_cover_open ==
    /\ pc = "OpenCover"
    /\ cover' = File(<<>>)
    /\ touched' = touched \cup {CoverStep}
    /\ pc' = "WriteCover"
    /\ UNCHANGED <<argv, compile_vars, listing_file, bak, out, error, listing, latex_content, sec,
                   prompt, tries, response, output,
                   waits, allBad, allEmpty, texts, calls, returned, mutations, regen, outAtStart>>

main_cover_write_converted ==
    /\ pc = "WriteCover"
    /\ cover' = File(convert_markdown_to_latex(response.text))
    /\ pc' = "Done"
    /\ UNCHANGED <<argv, compile_vars, listing_file, bak, out, error, listing, latex_content, sec,
                   prompt, tries, response, output, history>>

main_cover_write ==
    /\ pc = "WriteCover"
    /\ cover' = File(response.text)
    /\ pc' = "Done"
    /\ UNCHANGED <<argv, compile_vars, listing_file, bak, out, error, listing, latex_content, sec,
                   prompt, tries, response, output, history>>

(***************************************************************************)
(* The process can be killed at any point; what is in the files stays.     *)
(* After a run has ended the program can be run again.                     *)
(***************************************************************************)
Crash ==
    /\ pc \in Running
    /\ pc' = "Crashed"
    /\ UNCHANGED <<argv, compile_vars, files, error, listing, latex_content, sec, prompt, tries,
                   response, output, history>>

StartRun ==
    /\ pc \in Stopped
    /\ argv' \in Args
    /\ UNCHANGED <<files, compile_vars>>
    /\ pc' = "Idle"
    /\ error' = ""
    /\ listing' = <<>>
    /\ latex_content' = [i \in Sections |-> <<>>]
    /\ sec' = 0
    /\ prompt' = NoPrompt
    /\ tries' = 0
    /\ response' = None
    /\ output' = <<>>
    /\ waits' = <<>>
    /\ allBad' = TRUE
    /\ allEmpty' = TRUE
    /\ calls' = <<>>
    /\ returned' = <<>>
    /\ mutations' = [i \in Sections |-> 0]
    /\ touched' = {}
    /\ regen' = [i \in Sections |-> None]
    /\ outAtStart' = out
    /\ texts' = <<>>

Next ==
    \/ main_idle
    \/ main_open_listing
    \/ main_fetch
    \/ main_load
    \/ main_query
    \/ prompt_model_sleep
    \/ prompt_model_attempt
    \/ main_convert
    \/ main_open
    \/ main_write
    \/ main_cover_query
    \/ main_cover_open
    \/ main_cover_write
    \/ Crash
    \/ StartRun

Spec == Init /\ [][Next]_vars

(***************************************************************************)
(* Vocabulary of the properties.                                           *)
(***************************************************************************)
IsPrefix(a, b) == Len(a) <= Len(b) /\ a = SubSeq(b, 1, Len(a))
IsInfix(a, b) == \E k \in 0..(Len(b) - Len(a)) : SubSeq(b, k + 1, k + Len(a)) = a
StepOrder == [k \in 1..CoverStep |-> k]
GenFailed == error = "Exception"
GenReturned == pc \in {"Normalize", "OpenCover"}
InCall == pc \in {"Generate", "Request"}
Written(i) == i \in Sections /\ i < sec
Regenerated(i) == convert_markdown_to_latex(regen[i].text)
Persisted(i) == stripped_text(Regenerated(i))

(***************************************************************************)
(* C1.  A call of prompt_model makes at most max_tries attempts, goes on   *)
(* only while no attempt has returned non-empty text, and when it ends it  *)
(* raises if and only if every attempt it made returned empty text or      *)
(* raised.                                                                 *)
(***************************************************************************)
C1_RetryBound ==
    /\ tries <= max_tries
    /\ Len(waits) <= max_tries
    /\ Len(waits) \in {tries, tries + 1}
    /\ (InCall => tries < max_tries /\ allBad)
    /\ (GenFailed => allBad)
    /\ (GenReturned => ~allBad)

C1_Witness ==
    GenFailed /\ tries = max_tries /\ ~response.none /\ ~allEmpty

(***************************************************************************)
(* C2.  While the request of section j is in progress, its other-sections  *)
(* block contains, for every earlier section i, the converted response of  *)
(* section i and not the baseline of section i.                            *)
(***************************************************************************)
C2_LaterSeesEarlier ==
    (InCall /\ prompt.kind = "section") =>
        \A i \in Sections :
            i < sec => /\ ~regen[i].none
                       /\ IsInfix(Regenerated(i), prompt.others)
                       /\ ~IsInfix(Baseline(i), prompt.others)

C2_Witness ==
    /\ pc = "Request"
    /\ prompt.kind = "section"
    /\ sec = 2
    /\ regen[1] = Response(RespCode)

(***************************************************************************)
(* C3.  A section's content is its baseline until its one assignment and   *)
(* the whole converted response after it; when prompt_model raises for     *)
(* section sec, that section has not been assigned and its output file     *)
(* has not been opened or changed by this run.                             *)
(***************************************************************************)
C3_NoPartialUpdate ==
    /\ \A i \in Sections :
        /\ (sec >= 1 /\ mutations[i] = 0) => latex_content[i] = Baseline(i)
        /\ mutations[i] # 0 => mutations[i] = 1 /\ latex_content[i] = Regenerated(i)
    /\ (GenFailed /\ sec \in Sections) =>
        /\ mutations[sec] = 0
        /\ latex_content[sec] = bak[sec].data
        /\ sec \notin touched
        /\ out[sec] = outAtStart[sec]

C3_Witness ==
    /\ GenFailed
    /\ sec = 2
    /\ mutations[1] = 1
    /\ latex_content[1] = convert_markdown_to_latex(RespBold)
    /\ latex_content[2] = Baseline(2)

(***************************************************************************)
(* C4.  Once prompt_model has raised, the run makes no further request     *)
(* and writes no file: every later step leaves the files alone, and the    *)
(* record of requests changes only when the program is started again.      *)
(***************************************************************************)
C4_Halted ==
    GenFailed =>
        /\ pc = "Failed"
        /\ calls[Len(calls)] = sec
        /\ \A k \in 1..CoverStep : k >= sec => k \notin touched

C4_FailedIsTerminal ==
    [] C4_Halted /\
    [][GenFailed => /\ files' = files
                    /\ (calls' = calls /\ touched' = touched /\ error' = error)
                        \/ (pc' = "Idle" /\ calls' = <<>>)]_vars

C4_Witness ==
    /\ GenFailed
    /\ pc = "Failed"
    /\ sec = 1
    /\ NumSections > 1
    /\ out[2] = outAtStart[2]
    /\ calls = <<1>>

(***************************************************************************)
(* C5.  As stated: when a run has stopped, by crash or by exception, after *)
(* writing the output files of sections 1..k, each of those files holds    *)
(* what the run wrote for it and the output file of every section the run  *)
(* did not reach holds that section's baseline.                            *)
(***************************************************************************)
C5_UnreachedAtBaseline ==
    (pc \in {"Crashed", "Failed"} /\ Written(1)) =>
        \A i \in Sections :
            /\ Written(i) => out[i] = File(Persisted(i))
            /\ (i \notin touched /\ out[i].exists) => out[i].data = Baseline(i)

(***************************************************************************)
(* C5, amended.  When a run has stopped after writing the output files of  *)
(* sections 1..k, each of those files holds what the run wrote for it,     *)
(* the output file of every section whose file the run has not opened is   *)
(* as the run found it, and every baseline file holds its baseline.        *)
(***************************************************************************)
C5_WriteThrough ==
    (pc \in {"Crashed", "Failed"} /\ Written(1)) =>
        \A i \in Sections :
            /\ Written(i) => out[i] = File(Persisted(i))
            /\ i \notin touched => out[i] = outAtStart[i]
            /\ bak[i] = File(Baseline(i))

C5_Witness ==
    /\ pc = "Crashed"
    /\ sec = 2
    /\ touched = {1}
    /\ out[1] = File(stripped_text(convert_markdown_to_latex(RespBold)))
    /\ out[2] = File(stripped_text(convert_markdown_to_latex(RespCode)))
    /\ outAtStart[2] = out[2]

(***************************************************************************)
(* C6.  The content a section holds in memory after it was processed is    *)
(* the text that was written to its output file.                           *)
(***************************************************************************)
C6_StoreEqualsFile ==
    \A i \in Sections : Written(i) => out[i].data = latex_content[i]

(***************************************************************************)
(* C7.  The text written to a section's output file is the conversion of   *)
(* the response without its first and last line.                           *)
(***************************************************************************)
C7_StripThenConvert ==
    \A i \in Sections :
        Written(i) => out[i].data = convert_markdown_to_latex(stripped_text(regen[i].text))

(***************************************************************************)
(* C8.  The requests of a run are made in the order of the sections, each  *)
(* after the one before it has returned; a section is assigned at most     *)
(* once and only after all sections before it; in a run that is done       *)
(* every section was assigned once and one call returned for each step,    *)
(* in order.                                                               *)
(***************************************************************************)
C8_FixedOrder ==
    /\ IsPrefix(calls, StepOrder)
    /\ IsPrefix(returned, calls)
    /\ Len(calls) <= Len(returned) + 1
    /\ \A i \in Sections :
        /\ mutations[i] <= 1
        /\ mutations[i] = 1 => Len(returned) >= i /\ \A k \in 1..i : mutations[k] = 1
    /\ pc = "Done" =>
        /\ returned = StepOrder
        /\ \A i \in Sections : mutations[i] = 1

C8_Witness ==
    /\ pc = "Done"
    /\ calls = StepOrder
    /\ \A i \in Sections : mutations[i] = 1 /\ latex_content[i] = Regenerated(i)

(***************************************************************************)
(* C9.  The cover-letter request is made only after every section was      *)
(* assigned and written, and once; its prompt holds the concatenation of   *)
(* the sections' converted responses and the listing; the text it returns  *)
(* is written to the cover-letter file as it is.                           *)
(***************************************************************************)
CoverCalls == {k \in 1..Len(calls) : calls[k] = CoverStep}

C9_CoverLetter ==
    /\ Cardinality(CoverCalls) <= 1
    /\ CoverCalls # {} =>
        /\ calls = StepOrder
        /\ \A i \in Sections :
            Written(i) /\ mutations[i] = 1 /\ out[i] = File(Persisted(i))
    /\ prompt.kind = "cover" =>
        /\ CoverCalls # {}
        /\ prompt.others = join(<<>>, [i \in Sections |-> Regenerated(i)])
        /\ prompt.listing = ascii_only(listing_file.data)
    /\ pc = "Done" =>
        /\ prompt.kind = "cover"
        /\ response.text \in Responses
        /\ cover = File(response.text)

C9_Witness ==
    /\ pc = "Done"
    /\ cover = File(RespCode)
    /\ regen[1] = Response(RespBold)
    /\ prompt.listing = <<"j", "o", "b">>

(***************************************************************************)
(* C10.  As stated: the sleep before attempt i of a call, counted from 0,  *)
(* is 2 * i, and a call whose attempts all return empty text makes exactly *)
(* 3 attempts, after sleeps of 0, 2 and 4, and raises.                     *)
(***************************************************************************)
BackoffSoFar ==
    /\ (pc = "Request" => Len(waits) = tries + 1)
    /\ (pc \notin {"Request", "Crashed"} => Len(waits) = tries)
    /\ \A k \in 1..Len(waits) : waits[k] = 2 * (k - 1)

AllEmptyCallEnded == allEmpty /\ tries > 0 /\ ~InCall /\ pc # "Crashed"

C10_ThreeAttempts ==
    /\ BackoffSoFar
    /\ AllEmptyCallEnded =>
        /\ GenFailed
        /\ tries = 3
        /\ waits = <<0, 2, 4>>

(***************************************************************************)
(* C10, amended.  The sleep before attempt i of a call, counted from 0, is *)
(* 2 * i; the number of attempts is fixed at 5, so a call whose attempts   *)
(* all return empty text makes exactly 5 attempts, after sleeps of 0, 2,   *)
(* 4, 6 and 8, and raises.                                                 *)
(***************************************************************************)
C10_LinearBackoff ==
    /\ BackoffSoFar
    /\ AllEmptyCallEnded =>
        /\ GenFailed
        /\ tries = 5
        /\ waits = <<0, 2, 4, 6, 8>>

C10_Witness ==
    /\ GenFailed
    /\ allEmpty
    /\ tries = 5
    /\ waits = <<0, 2, 4, 6, 8>>

(***************************************************************************)
(* C11.  A run gets past the loading only when the listing file and every  *)
(* baseline file exist; a run that ends with FileNotFoundError has made no *)
(* request and has opened no output file and no cover-letter file.         *)
(***************************************************************************)
C11_MissingArtifact ==
    /\ sec >= 1 => listing_file.exists /\ \A i \in Sections : bak[i].exists
    /\ error = "FileNotFoundError" =>
        /\ pc = "Failed"
        /\ sec = 0
        /\ ~listing_file.exists \/ \E i \in Sections : ~bak[i].exists
        /\ calls = <<>>
        /\ touched \subseteq {ListingStep}
        /\ out = outAtStart

C11_Witness ==
    /\ error = "FileNotFoundError"
    /\ listing_file.exists
    /\ NumSections > 1
    /\ bak[1].exists
    /\ ~bak[NumSections].exists

(***************************************************************************)
(* C12.  A run started with an argument that is not a URL ends with        *)
(* ValueError and has not removed or rewritten the listing file, loaded a  *)
(* baseline, made a request or opened a file for writing.                  *)
(***************************************************************************)
NotAUrl(a) == a # NoArg /\ a # UrlArg

C12_RejectedBeforeEffects ==
    (NotAUrl(argv) /\ pc # "Idle" /\ pc # "Crashed") =>
        /\ error = "ValueError"
        /\ touched = {}
        /\ sec = 0
        /\ calls = <<>>

(***************************************************************************)
(* C17.  The other-sections block of the request of section sec is the     *)
(* join, in section order, of the converted response of every earlier      *)
(* section and the baseline of every later one, without the section's own  *)
(* content; the block to edit holds the section's baseline.                *)
(***************************************************************************)
CurrentContent(k) == IF k < sec THEN Regenerated(k) ELSE Baseline(k)
OthersInOrder ==
    [k \in 1..(NumSections - 1) |->
        IF k < sec THEN CurrentContent(k) ELSE CurrentContent(k + 1)]

C17_Snapshot ==
    (InCall /\ prompt.kind = "section") =>
        /\ prompt.others = join(<<NL, NL>>, OthersInOrder)
        /\ ~IsInfix(Baseline(sec), prompt.others)
        /\ prompt.edit = Baseline(sec)
        /\ prompt.description = Descriptions[sec]

C17_Witness ==
    /\ pc = "Request"
    /\ prompt.kind = "section"
    /\ sec = 2
    /\ NumSections >= 3
    /\ regen[1] = Response(RespBold)
    /\ IsPrefix(Regenerated(1) \o <<NL, NL>> \o Baseline(3), prompt.others)
    /\ prompt.edit = Baseline(2)

(***************************************************************************)
(* C18.  A run makes requests only with a listing that a successful fetch  *)
(* produced.                                                               *)
(***************************************************************************)
C18_ListingWasFetched ==
    calls # <<>> => listing_file = File(FetchedText) /\ listing = ascii_only(FetchedText)

(***************************************************************************)
(* C19.  A call of prompt_model goes on only while no attempt has returned *)
(* non-empty text, so at most one attempt of a call returns non-empty      *)
(* text, and the call returns the text of that attempt.                    *)
(***************************************************************************)
C19_FirstTextWins ==
    /\ Len(texts) <= 1
    /\ InCall => texts = <<>>
    /\ GenReturned => texts = <<response.text>> /\ Len(waits) = tries
    /\ \A i \in Sections : ~regen[i].none => regen[i].text \in Responses

C19_Witness ==
    /\ GenReturned
    /\ tries = 3
    /\ ~allEmpty
    /\ texts = <<RespCode>>
    /\ response = Response(RespCode)

(***************************************************************************)
(* C20.  No step changes a baseline file, and every run enters the loop    *)
(* with each section's content equal to its baseline, whatever earlier     *)
(* runs wrote to the output files.                                         *)
(***************************************************************************)
C20_StartsAtBaseline ==
    (pc = "PerSection" /\ sec = 1) =>
        \A i \in Sections : latex_content[i] = Baseline(i) /\ bak[i] = File(Baseline(i))

C20_BaselinesReadOnly ==
    [] C20_StartsAtBaseline /\ [][bak' = bak]_vars

C20_Witness ==
    /\ pc = "PerSection"
    /\ sec = 1
    /\ \A i \in Sections : out[i].exists /\ out[i].data # Baseline(i)
    /\ cover.exists
    /\ latex_content[1] = Baseline(1)

(***************************************************************************)
(* compile_latex.  os.system returns the wait status of the command, the   *)
(* exit code shifted left by eight bits.  Path splits its argument at the  *)
(* slashes and drops the empty components and the ones that are a single   *)
(* dot; the root is one slash, or two when the argument starts with        *)
(* exactly two.  with_suffix raises ValueError when no component is left,   *)
(* and otherwise replaces the suffix of the last one, the part from its    *)
(* last dot, or appends when it has no suffix: no dot, or the last dot is   *)
(* its first or last character.                                            *)
(***************************************************************************)
MaxExitCode == 3

ExitStatuses == {256 * k : k \in 0..MaxExitCode}

TexPaths ==
    {d \o n \o x : d \in {<<>>, <<"r", "/">>, <<"r", "/", "/">>, <<".", "/">>, <<"/">>,
                          <<"/", "/">>},
                   n \in {<<>>, <<"a">>, <<".", "a">>, <<"a", ".", "b">>},
                   x \in {<<".", "t", "e", "x">>, <<".", "t">>, <<".">>, <<"/">>, <<>>}}

Max(S) == CHOOSE m \in S : \A n \in S : m >= n

RECURSIVE split_slash(_)
split_slash(p) ==
    LET slashes == {k \in 1..Len(p) : p[k] = "/"}
    IN  IF slashes = {} THEN <<p>>
        ELSE <<SubSeq(p, 1, Min(slashes) - 1)>>
                 \o split_slash(SubSeq(p, Min(slashes) + 1, Len(p)))

path_root(p) ==
    LET leading == Max({n \in 0..Len(p) : \A k \in 1..n : p[k] = "/"})
    IN  IF leading = 0 THEN <<>> ELSE IF leading = 2 THEN <<"/", "/">> ELSE <<"/">>

path_parts(p) == SelectSeq(split_slash(p), LAMBDA c : c # <<>> /\ c # <<".">>)

path_name(p) == IF path_parts(p) = <<>> THEN <<>> ELSE path_parts(p)[Len(path_parts(p))]

suffix_start(name) ==
    LET dots == {k \in 1..Len(name) : name[k] = "."}
    IN  IF dots = {} \/ Max(dots) = 1 \/ Max(dots) = Len(name)
        THEN Len(name) + 1
        ELSE Max(dots)

with_suffix_pdf(p) ==
    LET parts == path_parts(p)
        name == path_name(p)
        renamed == SubSeq(name, 1, suffix_start(name) - 1) \o <<".", "p", "d", "f">>
    IN  path_root(p) \o join(<<"/">>, SubSeq(parts, 1, Len(parts) - 1) \o <<renamed>>)

compile_latex(path, success) ==
    IF success = 0
    THEN [called |-> TRUE, none |-> TRUE, path |-> <<>>, error |-> ""]
    ELSE IF path_name(path) = <<>>
    THEN [called |-> TRUE, none |-> FALSE, path |-> <<>>, error |-> "ValueError"]
    ELSE [called |-> TRUE, none |-> FALSE, path |-> with_suffix_pdf(path), error |-> ""]

compile_latex_call ==
    /\ ~compiled.called
    /\ compiled' = compile_latex(tex_path, exit_status)
    /\ UNCHANGED <<files, process, history, argv, tex_path, exit_status>>

CompileInit ==
    /\ listing_file = NoFile
    /\ bak = [i \in Sections |-> File(Baseline(i))]
    /\ out = [i \in Sections |-> NoFile]
    /\ cover = NoFile
    /\ FreshProcess
    /\ argv = NoArg
    /\ tex_path \in TexPaths
    /\ exit_status \in ExitStatuses
    /\ compiled = NotCalled

CompileNext == compile_latex_call

CompileSpec == CompileInit /\ [][CompileNext]_vars

(***************************************************************************)
(* C13.  compile_latex returns no path when the toolchain's exit status is *)
(* not zero, and the path with the same stem and the pdf extension when    *)
(* it is zero.                                                             *)
(***************************************************************************)
C13_NullOnFailure ==
    compiled.called =>
        /\ exit_status # 0 => compiled.none
        /\ exit_status = 0 => ~compiled.none /\ compiled.path = with_suffix_pdf(tex_path)

(***************************************************************************)
(* convert_markdown_to_latex on its own: main stands where prompt_model    *)
(* has returned a text for the first section, the text being any text of   *)
(* at most MaxTextLen characters or any rendering of at most MaxSpans      *)
(* spans, and main_convert converts it.                                    *)
(***************************************************************************)
MaxTextLen == 4
MaxSpans == 2

Alphabet == {"a", STAR, BT, HASH, BSL, NL}
ShortTexts == UNION {[1..n -> Alphabet] : n \in 1..MaxTextLen}

SpanKinds == {"plain", "bold", "italic", "code"}
SpanBodies == {<<"a">>, <<"b", "c">>}
Spans == [kind : SpanKinds, body : SpanBodies]
SpanSeqs == UNION {[1..n -> Spans] : n \in 1..MaxSpans}

Delimiter(kind) ==
    CASE kind = "bold" -> <<STAR, STAR>>
      [] kind = "italic" -> <<STAR>>
      [] kind = "code" -> <<BT>>
      [] OTHER -> <<>>

Markdown(segs) ==
    join(<<>>, [k \in 1..Len(segs) |->
        Delimiter(segs[k].kind) \o segs[k].body \o Delimiter(segs[k].kind)])

Latex(segs) ==
    join(<<>>, [k \in 1..Len(segs) |->
        CASE segs[k].kind = "bold" -> textbf(segs[k].body)
          [] segs[k].kind = "italic" -> textit(segs[k].body)
          [] segs[k].kind = "code" -> texttt(segs[k].body)
          [] OTHER -> segs[k].body])

NormalizeInputs == ShortTexts \cup {Markdown(segs) : segs \in SpanSeqs}

NormalizeInit ==
    /\ listing_file = File(FetchedText)
    /\ bak = [i \in Sections |-> File(Baseline(i))]
    /\ out = [i \in Sections |-> NoFile]
    /\ cover = NoFile
    /\ pc = "Normalize"
    /\ error = ""
    /\ listing = ascii_only(FetchedText)
    /\ latex_content = [i \in Sections |-> Baseline(i)]
    /\ sec = 1
    /\ prompt = section_query(latex_content, 1, listing)
    /\ tries = 1
    /\ response \in {Response(t) : t \in NormalizeInputs}
    /\ output = <<>>
    /\ waits = <<0>>
    /\ allBad = FALSE
    /\ allEmpty = FALSE
    /\ calls = <<1>>
    /\ returned = <<1>>
    /\ mutations = [i \in Sections |-> 0]
    /\ touched = {}
    /\ regen = [i \in Sections |-> IF i = 1 THEN response ELSE None]
    /\ outAtStart = out
    /\ texts = <<response.text>>
    /\ argv = NoArg
    /\ tex_path = <<>>
    /\ exit_status = 0
    /\ compiled = NotCalled

NormalizeNext == main_convert

NormalizeSpec == NormalizeInit /\ [][NormalizeNext]_vars

Converted == pc = "OpenOut"

(***************************************************************************)
(* C14.  The conversion of the rendering of a sequence of plain, bold,     *)
(* italic and code spans, adjacent ones included, is the sequence with     *)
(* each span in its one wrapper and every body as it was.                  *)
(***************************************************************************)
C14_OneWrapperPerSpan ==
    Converted =>
        \A segs \in SpanSeqs : Markdown(segs) = response.text => output = Latex(segs)

(***************************************************************************)
(* C15.  As stated: in a text without stars and backticks, a hash becomes  *)
(* a percent sign when it is the first character of its line and only      *)
(* then; every other character stays.                                      *)
(***************************************************************************)
NoSpans(t) == \A k \in 1..Len(t) : t[k] # STAR /\ t[k] # BT
LineLeading(t, p) == p = 1 \/ t[p - 1] = NL

C15_OnlyLineLeading ==
    (Converted /\ NoSpans(response.text)) =>
        /\ Len(output) = Len(response.text)
        /\ \A p \in 1..Len(output) :
            output[p] = IF response.text[p] = HASH /\ LineLeading(response.text, p)
                        THEN "%" ELSE response.text[p]

(***************************************************************************)
(* C15, amended.  In a text without stars and backticks, the first hash    *)
(* of each line that does not directly follow a backslash becomes a        *)
(* percent sign, wherever in the line it stands; every other character,    *)
(* the later hashes of the line included, stays.                           *)
(***************************************************************************)
Unescaped(t, p) == t[p] = HASH /\ (p > 1 => t[p - 1] # BSL)
SameLineBefore(t, p) == {k \in 1..(p - 1) : \A j \in k..(p - 1) : t[j] # NL}
FirstUnescaped(t, p) == Unescaped(t, p) /\ \A k \in SameLineBefore(t, p) : ~Unescaped(t, k)

C15_FirstUnescapedHash ==
    (Converted /\ NoSpans(response.text)) =>
        /\ Len(output) = Len(response.text)
        /\ \A p \in 1..Len(output) :
            output[p] = IF FirstUnescaped(response.text, p) THEN "%" ELSE response.text[p]

C15_Witness ==
    /\ Converted
    /\ response.text = <<"a", HASH, "a", HASH>>
    /\ output = <<"a", "%", "a", HASH>>

(***************************************************************************)
(* C16.  A text whose only markup is one unmatched delimiter, a star, two  *)
(* stars or a backtick, is converted to itself.                            *)
(***************************************************************************)
DelimiterAt(t) == {k \in 1..Len(t) : t[k] = STAR \/ t[k] = BT}
LoneDelimiter(t) ==
    /\ \A k \in 1..Len(t) : t[k] # HASH
    /\ \E p \in 1..Len(t) :
        \/ DelimiterAt(t) = {p}
        \/ DelimiterAt(t) = {p, p + 1} /\ t[p] = STAR /\ p < Len(t) /\ t[p + 1] = STAR

C16_UnmatchedUnchanged ==
    (Converted /\ LoneDelimiter(response.text)) => output = response.text

C16_Witness ==
    /\ Converted
    /\ response.text = <<BT, "a", "a">>
    /\ output = response.text

====
